---- MODULE Spec2Model ----
(***************************************************************************)
(* Model of the event-reconstruction core of pax:                          *)
(*   - the ordered parallel dispatch layer (pax/plugins/io/Queues.py:      *)
(*     PushToSharedMemoryQueue, PullFromSharedMemoryQueue), driven as in   *)
(*     tests/test_multiprocessing.py;                                      *)
(*   - the sliding-window event clusterer                                  *)
(*     (pax/plugins/io/MongoDB.py: MongoDBReadUntriggered.sliding_window); *)
(*   - the signal primitives and the peak bounds engine (pax/dsputils.py:  *)
(*     sign_changes, intervals_above_threshold, peak_bounds,               *)
(*     find_first_fast, width_at_fraction, find_peak_in_signal);           *)
(*   - the peak/valley refiner (pax/dsputils.py: peaks_and_valleys);      *)
(*   - the polling event builder (pax/plugins/io/MongoDB.py:               *)
(*     MongoDBReadUntriggered.get_events) with the acquisition that        *)
(*     stores pulses and ends the run.                                     *)
(***************************************************************************)
EXTENDS Integers, Sequences, FiniteSets, TLC

(* ------------------------------ bounds -------------------------------- *)
MaxEvents == 5      \* events submitted to the producer in the general runs
MaxBatch == 2       \* configured batch sizes 1..MaxBatch in the general runs
NWorkers == 3       \* 1..NWorkers parallel workers between producer and consumer
QueueCap == 2       \* capacity of the bounded shared queue

MaxTime == 5        \* pulse times 0..MaxTime
MaxLen == 4         \* at most MaxLen pulse times
MaxWindow == 2      \* window 0..MaxWindow
MaxMult == 1        \* multiplicity 0..MaxMult
MaxExt == 1         \* left in -MaxExt..MaxExt, right in 0..MaxExt

MaxSigLen == 4      \* signals of 0..MaxSigLen samples
MaxVal == 1         \* samples in -1..MaxVal, unfiltered samples in 0..MaxVal

MaxInner == 8       \* peaks_and_valleys: at most MaxInner samples between the zeroed edges

MaxPulses == 2      \* get_events: at most MaxPulses pulses are stored during the run
MaxPulseTime == 2   \* get_events: pulse times 0..MaxPulseTime, in digitizer samples

(* the scenario of TestMultiprocessing.test_push *)
TestEvents == 22
TestBatch == 10

VARIABLES
    batch,          \* producer: configured block capacity
    limit,          \* length of the event stream fed to the producer
    n_workers,      \* number of parallel workers between producer and consumer
    submitted,      \* number of write_event calls so far (event k has event_number k)
    current_block,  \* producer: events buffered for the next block
    block_id,       \* producer: sequence number of the next block
    pstate,         \* producer: "running" | "shut" | "off"
    pushed,         \* every block the producer pushed, in push order
    taken,          \* how many blocks of pushed the workers have claimed (FIFO)
    working,        \* blocks claimed by a worker and not yet passed on
    lost,           \* sequence numbers of blocks a worker dropped
    queue,          \* the shared queue read by the consumer (FIFO)
    buffer,         \* consumer: blocks held until their turn
    expected,       \* consumer: next expected sequence number
    yielded,        \* events the consumer has yielded, in yield order
    pulled,         \* sequence numbers in the order the consumer pulled them
    cdone,          \* consumer: iteration has ended
    sw_x,           \* sliding_window: x, the pulse times (ascending)
    sw_window,      \* sliding_window: window
    sw_mult,        \* sliding_window: multiplicity
    sw_left,        \* sliding_window: left
    sw_right,       \* sliding_window: right
    sw_i,           \* sliding_window: i, start of the range to test
    sw_j,           \* sliding_window: j, end of the range to test
    sw_ranges,      \* sliding_window: ranges, each <<start, stop>>
    sw_pc,          \* sliding_window: "start" | "loop" | "done" | "ValueError" | "off"
    sw_runs,        \* the runs [i, j] from which a range was created or extended
    sg_signal,      \* dsputils: the signal passed to the function called
    sg_args,        \* dsputils: the other arguments of the call
    sg_res,         \* dsputils: what the call returned or raised
    sg_pc,          \* dsputils: "start", or the name of the function that was called
    pv_len,         \* peaks_and_valleys: len(signal)
    pv_conv,        \* peaks_and_valleys: np.convolve(signal, derivative_kernel, mode='same')
    pv_signal,      \* peaks_and_valleys: the samples of signal read so far, by index
    pv_test,        \* peaks_and_valleys: test_function's answers so far, by <<peak, valley>>
    pv_peaks,       \* peaks_and_valleys: peaks
    pv_valleys,     \* peaks_and_valleys: valleys
    pv_now,         \* peaks_and_valleys: now_at_peak
    pv_pc,          \* "start" | "loop" | "done" | the exception raised | "off"
    pv_last,        \* peaks_and_valleys: what the last loop iteration saw and did
    ge_store,       \* input collection: the 'time' of every stored pulse, ascending
    ge_run_ended,   \* run document: reader.data_taking_ended
    ge_status,      \* run document: trigger.status
    ge_unit,        \* get_events: mongo_time_unit / units.ns
    ge_ended,       \* get_events: self.data_taking_ended
    ge_last_time,   \* get_events: self.last_time * ge_unit
    ge_next,        \* get_events: index of the next range to yield
    ge_events,      \* get_events: the events yielded, each <<start_time, stop_time>>
    ge_pc,          \* get_events: position ("while", "update", "query", "sleep", ...)
    ge_seen,        \* the pulse times that a query has returned
    ge_waited,      \* last_time when a poll last found nothing, -1 before any such poll
    ge_arrivals,    \* the pulse times in the order in which the pulses were stored
    ge_queries      \* the non-empty query results so far, oldest first

dvars == <<batch, limit, n_workers, submitted, current_block, block_id, pstate, pushed,
           taken, working, lost, queue, buffer, expected, yielded, pulled, cdone>>

swvars == <<sw_x, sw_window, sw_mult, sw_left, sw_right, sw_i, sw_j, sw_ranges,
            sw_pc, sw_runs>>

sgvars == <<sg_signal, sg_args, sg_res, sg_pc>>

\* Everything but the dispatch layer and the sliding window.
pvvars == <<pv_len, pv_conv, pv_signal, pv_test, pv_peaks, pv_valleys, pv_now, pv_pc,
            pv_last>>

gevars == <<ge_store, ge_run_ended, ge_status, ge_unit, ge_ended, ge_last_time, ge_next,
            ge_events, ge_pc, ge_seen, ge_waited, ge_arrivals, ge_queries>>

xvars == <<sgvars, pvvars, gevars>>

vars == <<dvars, swvars, xvars>>

(* ---------------------------- blocks ---------------------------------- *)
\* The payload of the terminal block; no list of events (numbers >= 0) equals it.
NO_MORE_EVENTS == <<-1>>

Block(id, payload) == <<id, payload>>
IsSentinel(blk) == blk[2] = NO_MORE_EVENTS

\* fake_events(n) of the tests, from event number lo: lo, lo+1, ..., hi-1
EventsFromTo(lo, hi) == [k \in 1..(hi - lo) |-> lo + k - 1]

(* --------------------------- producer --------------------------------- *)
\* A producer is [current_block, block_id, out]; out is what it has put on its queue.

\* write_event that pushes one event too late (blocks of batch + 1 events).
write_event_late(p, e) ==
    LET blk == Append(p.current_block, e) IN
    IF Len(blk) > p.batch
    THEN [p EXCEPT !.current_block = <<>>,
                   !.block_id = p.block_id + 1,
                   !.out = Append(p.out, Block(p.block_id, blk))]
    ELSE [p EXCEPT !.current_block = blk]

\* write_event that forgets to advance the sequence number.
write_event_noinc(p, e) ==
    LET blk == Append(p.current_block, e) IN
    IF Len(blk) = p.batch
    THEN [p EXCEPT !.current_block = <<>>,
                   !.out = Append(p.out, Block(p.block_id, blk))]
    ELSE [p EXCEPT !.current_block = blk]

\* write_event: buffer the event; when the block is full, push it with the next
\* sequence number.
write_event(p, e) ==
    LET blk == Append(p.current_block, e) IN
    IF Len(blk) = p.batch
    THEN [p EXCEPT !.current_block = <<>>,
                   !.block_id = p.block_id + 1,
                   !.out = Append(p.out, Block(p.block_id, blk))]
    ELSE [p EXCEPT !.current_block = blk]

\* shutdown that gives the terminal block the number of the flushed block.
shutdown_reuse_id(p) ==
    LET flushed == IF Len(p.current_block) > 0
                   THEN [p EXCEPT !.current_block = <<>>,
                                  !.out = Append(p.out, Block(p.block_id, p.current_block))]
                   ELSE p
    IN [flushed EXCEPT !.out = Append(flushed.out, Block(flushed.block_id, NO_MORE_EVENTS))]

\* shutdown: flush the partial block, if any, then push the terminal block.
shutdown(p) ==
    LET flushed == IF Len(p.current_block) > 0
                   THEN [p EXCEPT !.current_block = <<>>,
                                  !.block_id = p.block_id + 1,
                                  !.out = Append(p.out, Block(p.block_id, p.current_block))]
                   ELSE p
    IN [flushed EXCEPT !.out = Append(flushed.out, Block(flushed.block_id, NO_MORE_EVENTS))]

Producer == [batch |-> batch, current_block |-> current_block,
             block_id |-> block_id, out |-> pushed]

SetProducer(p) ==
    /\ current_block' = p.current_block
    /\ block_id' = p.block_id
    /\ pushed' = p.out

WriteEvent ==
    /\ pstate = "running"
    /\ submitted < limit
    /\ SetProducer(write_event(Producer, submitted))
    /\ submitted' = submitted + 1
    /\ UNCHANGED <<batch, limit, n_workers, pstate, taken, working, lost, queue, buffer,
                   expected, yielded, pulled, cdone>>
    /\ UNCHANGED swvars
    /\ UNCHANGED xvars

Shutdown ==
    /\ pstate = "running"
    /\ SetProducer(shutdown(Producer))
    /\ pstate' = "shut"
    /\ UNCHANGED <<batch, limit, n_workers, submitted, taken, working, lost, queue, buffer,
                   expected, yielded, pulled, cdone>>
    /\ UNCHANGED swvars
    /\ UNCHANGED xvars

(* ---------------------------- workers --------------------------------- *)
\* A free worker claims the oldest unclaimed block.
WorkerClaim ==
    /\ taken < Len(pushed)
    /\ Cardinality(working) < n_workers
    /\ working' = working \cup {pushed[taken + 1]}
    /\ taken' = taken + 1
    /\ UNCHANGED <<batch, limit, n_workers, submitted, current_block, block_id, pstate, pushed,
                   lost, queue, buffer, expected, yielded, pulled, cdone>>
    /\ UNCHANGED swvars
    /\ UNCHANGED xvars

\* A worker that has finished its block puts it on the shared queue; it blocks
\* while the queue is full.
WorkerPush ==
    /\ Len(queue) < QueueCap
    /\ \E blk \in working :
          /\ queue' = Append(queue, blk)
          /\ working' = working \ {blk}
    /\ UNCHANGED <<batch, limit, n_workers, submitted, current_block, block_id, pstate, pushed,
                   taken, lost, buffer, expected, yielded, pulled, cdone>>
    /\ UNCHANGED swvars
    /\ UNCHANGED xvars

\* A worker dies with its block: that sequence number never reaches the queue.
WorkerLose ==
    /\ \E blk \in working :
          /\ working' = working \ {blk}
          /\ lost' = lost \cup {blk[1]}
    /\ UNCHANGED <<batch, limit, n_workers, submitted, current_block, block_id, pstate, pushed,
                   taken, queue, buffer, expected, yielded, pulled, cdone>>
    /\ UNCHANGED swvars
    /\ UNCHANGED xvars

(* ---------------------------- consumer -------------------------------- *)
\* A consumer is [buffer, expected, yielded, done].

\* Consume the block whose turn it is: the terminal block ends the iteration,
\* a data block has its events yielded; either way the next number is expected.
Consume(c, blk) ==
    IF IsSentinel(blk)
    THEN [c EXCEPT !.expected = c.expected + 1, !.done = TRUE]
    ELSE [c EXCEPT !.expected = c.expected + 1, !.yielded = c.yielded \o blk[2]]

\* Drain that does not wait for a missing number: it goes on with the lowest
\* number it holds.
RECURSIVE DrainSkip(_)
DrainSkip(c) ==
    IF ~c.done /\ c.buffer # {}
    THEN LET blk == CHOOSE b \in c.buffer : \A o \in c.buffer : b[1] <= o[1]
         IN DrainSkip(Consume([c EXCEPT !.buffer = c.buffer \ {blk},
                                        !.expected = blk[1]], blk))
    ELSE c

\* Drain the buffer of the blocks that have become contiguous.
RECURSIVE Drain(_)
Drain(c) ==
    IF ~c.done /\ \E blk \in c.buffer : blk[1] = c.expected
    THEN LET blk == CHOOSE b \in c.buffer : b[1] = c.expected
         IN Drain(Consume([c EXCEPT !.buffer = c.buffer \ {blk}], blk))
    ELSE c

\* on_block without order reconstruction: every block is consumed on arrival.
on_block_unordered(c, blk) == Consume(c, blk)

\* on_block that ends the iteration as soon as the terminal block is received.
on_block_sentinel(c, blk) ==
    IF IsSentinel(blk)
    THEN [c EXCEPT !.done = TRUE]
    ELSE IF blk[1] = c.expected
         THEN Drain(Consume(c, blk))
         ELSE [c EXCEPT !.buffer = c.buffer \cup {blk}]

\* One pulled block: consumed at once when it is the expected one, otherwise held.
on_block(c, blk) ==
    IF blk[1] = c.expected
    THEN Drain(Consume(c, blk))
    ELSE [c EXCEPT !.buffer = c.buffer \cup {blk}]

Consumer == [buffer |-> buffer, expected |-> expected, yielded |-> yielded,
             done |-> cdone]

\* A consumer that takes a block off the queue only when it is the expected one.
CanPullExpected == ~cdone /\ Len(queue) > 0 /\ Head(queue)[1] = expected

\* queue.get() in get_events returns only when the consumer still runs and
\* the queue holds a block; otherwise the consumer stays blocked.
CanPull == ~cdone /\ Len(queue) > 0

\* get_events: one blocking pull from the queue and what follows from it.
PullBlock ==
    /\ CanPull
    /\ LET c == on_block(Consumer, Head(queue)) IN
          /\ buffer' = c.buffer
          /\ expected' = c.expected
          /\ yielded' = c.yielded
          /\ cdone' = c.done
    /\ pulled' = Append(pulled, Head(queue)[1])
    /\ queue' = Tail(queue)
    /\ UNCHANGED <<batch, limit, n_workers, submitted, current_block, block_id, pstate, pushed,
                   taken, working, lost>>
    /\ UNCHANGED swvars
    /\ UNCHANGED xvars

(* ------------------------- sliding window ----------------------------- *)
\* x[k] of a numpy array: zero-based, a negative index counts from the end.
At(a, k) == IF k >= 0 THEN a[k + 1] ELSE a[Len(a) + k + 1]

\* The argument check with >= in place of >.
LeftRejectedOrZero(left) == left >= 0

\* if left > 0: raise ValueError
LeftRejected(left) == left > 0

\* The loop state is [x, window, multiplicity, left, right, i, j, ranges, emit];
\* emit tells what the last iteration did to ranges: "none", "new" or "extend".

\* One iteration that closes the range at x[j] instead of x[j-1].
sliding_window_step_end_at_j(s) ==
    IF At(s.x, s.j) - At(s.x, s.i) > s.window
    THEN IF s.j - s.i > s.multiplicity
         THEN IF Len(s.ranges) > 0 /\ s.ranges[Len(s.ranges)][2] + s.window > At(s.x, s.i)
              THEN [s EXCEPT !.ranges[Len(s.ranges)][2] = At(s.x, s.j) + s.right,
                             !.emit = "extend", !.i = s.i + 1]
              ELSE [s EXCEPT !.ranges = Append(s.ranges, <<At(s.x, s.i) + s.left,
                                                           At(s.x, s.j) + s.right>>),
                             !.emit = "new", !.i = s.i + 1]
         ELSE [s EXCEPT !.emit = "none", !.i = s.i + 1]
    ELSE [s EXCEPT !.emit = "none", !.j = s.j + 1]

\* One iteration that triggers on j - i >= multiplicity.
sliding_window_step_ge(s) ==
    IF At(s.x, s.j) - At(s.x, s.i) > s.window
    THEN IF s.j - s.i >= s.multiplicity
         THEN IF Len(s.ranges) > 0 /\ s.ranges[Len(s.ranges)][2] + s.window > At(s.x, s.i)
              THEN [s EXCEPT !.ranges[Len(s.ranges)][2] = At(s.x, s.j - 1) + s.right,
                             !.emit = "extend", !.i = s.i + 1]
              ELSE [s EXCEPT !.ranges = Append(s.ranges, <<At(s.x, s.i) + s.left,
                                                           At(s.x, s.j - 1) + s.right>>),
                             !.emit = "new", !.i = s.i + 1]
         ELSE [s EXCEPT !.emit = "none", !.i = s.i + 1]
    ELSE [s EXCEPT !.emit = "none", !.j = s.j + 1]

sliding_window_step_append(s) ==
    IF At(s.x, s.j) - At(s.x, s.i) > s.window
    THEN IF s.j - s.i > s.multiplicity
         THEN [s EXCEPT !.ranges = Append(s.ranges, <<At(s.x, s.i) + s.left,
                                                      At(s.x, s.j - 1) + s.right>>),
                        !.emit = "new", !.i = s.i + 1]
         ELSE [s EXCEPT !.emit = "none", !.i = s.i + 1]
    ELSE [s EXCEPT !.emit = "none", !.j = s.j + 1]

\* One iteration of `while j < x.size`.
sliding_window_step(s) ==
    IF At(s.x, s.j) - At(s.x, s.i) > s.window
    THEN IF s.j - s.i > s.multiplicity
         THEN IF Len(s.ranges) > 0 /\ s.ranges[Len(s.ranges)][2] + s.window > At(s.x, s.i)
              THEN [s EXCEPT !.ranges[Len(s.ranges)][2] = At(s.x, s.j - 1) + s.right,
                             !.emit = "extend", !.i = s.i + 1]
              ELSE [s EXCEPT !.ranges = Append(s.ranges, <<At(s.x, s.i) + s.left,
                                                           At(s.x, s.j - 1) + s.right>>),
                             !.emit = "new", !.i = s.i + 1]
         ELSE [s EXCEPT !.emit = "none", !.i = s.i + 1]
    ELSE [s EXCEPT !.emit = "none", !.j = s.j + 1]

\* The flush after the loop.
sliding_window_flush(s) ==
    IF s.j - s.i > s.multiplicity
    THEN [s EXCEPT !.ranges = Append(s.ranges, <<At(s.x, s.i) + s.left,
                                                 At(s.x, s.j - 1) + s.right>>),
                   !.emit = "new"]
    ELSE [s EXCEPT !.emit = "none"]

LoopState == [x |-> sw_x, window |-> sw_window, multiplicity |-> sw_mult,
              left |-> sw_left, right |-> sw_right, i |-> sw_i, j |-> sw_j,
              ranges |-> sw_ranges, emit |-> "none"]

\* What an iteration did is recorded with the i and j it ran with.
SetLoopState(s) ==
    /\ sw_i' = s.i
    /\ sw_j' = s.j
    /\ sw_ranges' = s.ranges
    /\ sw_runs' = IF s.emit = "none" THEN sw_runs
                  ELSE Append(sw_runs, [i |-> sw_i, j |-> sw_j, emit |-> s.emit,
                                        n |-> Len(s.ranges)])

\* Entry of sliding_window: the check of left, then ranges = [], i = 0, j = 0.
SWStart ==
    /\ sw_pc = "start"
    /\ sw_pc' = IF LeftRejected(sw_left) THEN "ValueError" ELSE "loop"
    /\ UNCHANGED <<sw_x, sw_window, sw_mult, sw_left, sw_right, sw_i, sw_j, sw_ranges,
                   sw_runs>>
    /\ UNCHANGED dvars
    /\ UNCHANGED xvars

SWStep ==
    /\ sw_pc = "loop"
    /\ sw_j < Len(sw_x)
    /\ SetLoopState(sliding_window_step(LoopState))
    /\ UNCHANGED <<sw_x, sw_window, sw_mult, sw_left, sw_right, sw_pc>>
    /\ UNCHANGED dvars
    /\ UNCHANGED xvars

SWFlush ==
    /\ sw_pc = "loop"
    /\ sw_j >= Len(sw_x)
    /\ SetLoopState(sliding_window_flush(LoopState))
    /\ sw_pc' = "done"
    /\ UNCHANGED <<sw_x, sw_window, sw_mult, sw_left, sw_right>>
    /\ UNCHANGED dvars
    /\ UNCHANGED xvars

(* ------------------------ signal primitives --------------------------- *)
\* a[k] of a zero-based array held as a sequence.
Ix(a, k) == a[k + 1]

\* a[lo:hi], the samples lo .. hi-1.
Slice(a, lo, hi) == [k \in 1..(hi - lo) |-> a[lo + k]]

\* a[k::-1], the samples k, k-1, ..., 0.
Reversed(a, k) == [m \in 1..(k + 1) |-> a[k + 2 - m]]

\* np.where(d == v)[0] over the first n entries: the zero-based indices, ascending.
RECURSIVE Where(_, _, _)
Where(d, v, n) ==
    IF n = 0 THEN <<>>
    ELSE IF d[n] = v THEN Append(Where(d, v, n - 1), n - 1) ELSE Where(d, v, n - 1)

\* sorted(a)
RECURSIVE Insert(_, _)
Insert(a, v) ==
    IF Len(a) = 0 THEN <<v>>
    ELSE IF v >= a[Len(a)] THEN Append(a, v)
    ELSE Append(Insert(SubSeq(a, 1, Len(a) - 1), v), a[Len(a)])
RECURSIVE Sorted(_)
Sorted(a) == IF Len(a) = 0 THEN <<>> ELSE Insert(Sorted(SubSeq(a, 1, Len(a) - 1)), a[Len(a)])

\* zip(*[iter(a)] * 2): consecutive entries in pairs, an odd last entry dropped.
Pairs(a) == [k \in 1..(Len(a) \div 2) |-> <<a[2 * k - 1], a[2 * k]>>]

\* np.sum(a)
RECURSIVE Sum(_)
Sum(a) == IF Len(a) = 0 THEN 0 ELSE Sum(SubSeq(a, 1, Len(a) - 1)) + a[Len(a)]

\* np.argmax(a) of a non-empty array: the first index of the maximum.
argmax(a) ==
    CHOOSE k \in 0..(Len(a) - 1) :
        /\ \A m \in 0..(Len(a) - 1) : Ix(a, m) <= Ix(a, k)
        /\ \A m \in 0..(k - 1) : Ix(a, m) < Ix(a, k)

Policies == {"positive", "non-positive", "never"}

\* The value written to above0[-1].
FirstIndexMark(report_first_index) ==
    IF report_first_index = "positive" THEN 0
    ELSE IF report_first_index = "non-positive" THEN 1
    ELSE -1234

\* sign_changes: [err, first, second] with first = becomes_positive and
\* second = becomes_non_positive; an empty signal fails at above0[-1] = ...
sign_changes(signal, report_first_index) ==
    LET n == Len(signal)
        clipped == [k \in 1..n |-> IF signal[k] > 0 THEN 1 ELSE 0]
        above0 == [clipped EXCEPT ![n] = FirstIndexMark(report_first_index)]
        above0_next == [k \in 1..n |-> IF k = 1 THEN above0[n] ELSE above0[k - 1]]
        diff == [k \in 1..n |-> above0[k] - above0_next[k]]
        down == Where(diff, -1, n)
    IN IF n = 0
       THEN [err |-> "IndexError", first |-> <<>>, second |-> <<>>]
       ELSE [err |-> "none",
             first |-> Where(diff, 1, n),
             second |-> [k \in 1..Len(down) |-> down[k] - 1]]

\* intervals_above_threshold: [err, intervals]
intervals_above_threshold(signal, threshold) ==
    LET sc == sign_changes([k \in 1..Len(signal) |-> signal[k] - threshold], "positive")
    IN IF sc.err # "none"
       THEN [err |-> sc.err, intervals |-> <<>>]
       ELSE [err |-> "none", intervals |-> Pairs(Sorted(sc.first \o sc.second))]

(* ------------------------ peak bounds engine -------------------------- *)
\* A fraction is <<numerator, denominator>> with denominator > 0; a threshold
\* min(zero_level, height * fraction) is kept as [scaled, den], its value times
\* den and den, so that every comparison is one of integers.
Threshold(height, fraction, zero_level) ==
    LET a == zero_level * fraction[2]
        b == height * fraction[1]
    IN [scaled |-> IF a < b THEN a ELSE b, den |-> fraction[2]]

\* threshold_test: lambda x: x < threshold
threshold_test(x, thr) == x * thr.den < thr.scaled

ChunkSize == 128

\* The chunks a[i0:i1] of find_first_fast from i0 on: the index of the first
\* sample that passes the test, or, when there is none, the last index.
RECURSIVE FindFrom(_, _, _)
FindFrom(a, thr, i0) ==
    LET last == i0 + ChunkSize >= Len(a)
        i1 == IF last THEN Len(a) ELSE i0 + ChunkSize
        hits == {k \in i0..(i1 - 1) : threshold_test(Ix(a, k), thr)}
    IN IF hits # {} THEN CHOOSE k \in hits : \A m \in hits : k <= m
       ELSE IF last THEN Len(a) - 1
       ELSE FindFrom(a, thr, i1)

\* find_first_fast that answers len(a) when nothing passes the test.
find_first_fast_past_end(a, thr) ==
    IF \E k \in 0..(Len(a) - 1) : threshold_test(Ix(a, k), thr)
    THEN FindFrom(a, thr, 0)
    ELSE Len(a)

find_first_fast(a, thr) == FindFrom(a, thr, 0)

\* peak_bounds: [err, left, right]
peak_bounds(signal, max_idx, fraction_of_max, zero_level) ==
    IF Len(signal) = 0
    THEN [err |-> "RuntimeError", left |-> 0, right |-> 0]
    ELSE LET height == Ix(signal, max_idx)
             thr == Threshold(height, fraction_of_max, zero_level)
             left == find_first_fast(Reversed(signal, max_idx), thr)
             right == find_first_fast(Slice(signal, max_idx, Len(signal)), thr)
         IN IF threshold_test(height, thr)
            THEN [err |-> "none", left |-> max_idx, right |-> max_idx]
            ELSE [err |-> "none", left |-> max_idx - left, right |-> right + max_idx]

\* width_at_fraction: [err, width]
width_at_fraction(peak_wave, fraction_of_max, max_idx) ==
    LET b == peak_bounds(peak_wave, max_idx, fraction_of_max, 0)
    IN [err |-> b.err, width |-> b.right - b.left + 1]

NoPeak == [index_of_maximum |-> 0, height |-> 0, left |-> 0, right |-> 0, area |-> 0]

\* find_peak_in_signal: [err, peak]; np.argmax of an empty signal raises.
find_peak_in_signal(signal, unfiltered, integration_bound_fraction, offset) ==
    IF Len(signal) = 0
    THEN [err |-> "ValueError", peak |-> NoPeak]
    ELSE LET max_idx == argmax(signal)
             b == peak_bounds(signal, max_idx, integration_bound_fraction, 0)
             window == Slice(unfiltered, b.left, b.right + 1)
             unfiltered_max == argmax(window)
         IN [err |-> "none",
             peak |-> [index_of_maximum |-> offset + unfiltered_max,
                       height |-> Ix(unfiltered, unfiltered_max),
                       left |-> offset + b.left,
                       right |-> offset + b.right,
                       area |-> Sum(window)]]

\* The arguments and results a call does not use keep these values.
NoArgs == [unfiltered |-> <<>>, threshold |-> 0, policy |-> "positive", max_idx |-> 0,
           fraction |-> <<0, 1>>, zero_level |-> 0, offset |-> 0]
NoRes == [err |-> "none", first |-> <<>>, second |-> <<>>, intervals |-> <<>>,
          left |-> 0, right |-> 0, width |-> 0, peak |-> NoPeak]

Fractions == {<<-1, 2>>, <<0, 1>>, <<1, 2>>, <<1, 1>>, <<2, 1>>}
Samples == (-1)..MaxVal
Signals == UNION {[1..n -> Samples] : n \in 0..MaxSigLen}
\* max_idx is an index of the signal (0 for the empty one, which is rejected first).
Indices(signal) == IF Len(signal) = 0 THEN {0} ELSE 0..(Len(signal) - 1)

SGOthers == UNCHANGED <<sg_signal, dvars, swvars, pvvars, gevars>>

SignChanges ==
    /\ sg_pc = "start"
    /\ \E policy \in Policies :
          LET r == sign_changes(sg_signal, policy) IN
          /\ sg_args' = [NoArgs EXCEPT !.policy = policy]
          /\ sg_res' = [NoRes EXCEPT !.err = r.err, !.first = r.first, !.second = r.second]
    /\ sg_pc' = "sign_changes"
    /\ SGOthers

IntervalsAboveThreshold ==
    /\ sg_pc = "start"
    /\ \E threshold \in Samples :
          LET r == intervals_above_threshold(sg_signal, threshold) IN
          /\ sg_args' = [NoArgs EXCEPT !.threshold = threshold]
          /\ sg_res' = [NoRes EXCEPT !.err = r.err, !.intervals = r.intervals]
    /\ sg_pc' = "intervals_above_threshold"
    /\ SGOthers

PeakBounds ==
    /\ sg_pc = "start"
    /\ \E max_idx \in Indices(sg_signal), fraction \in Fractions, zero_level \in (-1)..1 :
          LET r == peak_bounds(sg_signal, max_idx, fraction, zero_level) IN
          /\ sg_args' = [NoArgs EXCEPT !.max_idx = max_idx, !.fraction = fraction,
                                       !.zero_level = zero_level]
          /\ sg_res' = [NoRes EXCEPT !.err = r.err, !.left = r.left, !.right = r.right]
    /\ sg_pc' = "peak_bounds"
    /\ SGOthers

WidthAtFraction ==
    /\ sg_pc = "start"
    /\ \E max_idx \in Indices(sg_signal), fraction \in Fractions :
          LET r == width_at_fraction(sg_signal, fraction, max_idx) IN
          /\ sg_args' = [NoArgs EXCEPT !.max_idx = max_idx, !.fraction = fraction]
          /\ sg_res' = [NoRes EXCEPT !.err = r.err, !.width = r.width]
    /\ sg_pc' = "width_at_fraction"
    /\ SGOthers

FindPeakInSignal ==
    /\ sg_pc = "start"
    /\ \E unfiltered \in [1..Len(sg_signal) -> 0..MaxVal], fraction \in Fractions,
          offset \in {0, 3} :
          LET r == find_peak_in_signal(sg_signal, unfiltered, fraction, offset) IN
          /\ sg_args' = [NoArgs EXCEPT !.unfiltered = unfiltered, !.fraction = fraction,
                                       !.offset = offset]
          /\ sg_res' = [NoRes EXCEPT !.err = r.err, !.peak = r.peak]
    /\ sg_pc' = "find_peak_in_signal"
    /\ SGOthers

(* ----------------------- peaks and valleys ---------------------------- *)
KernelLen == 9
Offset == (KernelLen - 1) \div 2

\* a[np.where(a < v)[0]], a[np.where(a > v)[0]], a[np.where(a != v)[0]]
Below(a, v) == SelectSeq(a, LAMBDA e : e < v)
Above(a, v) == SelectSeq(a, LAMBDA e : e > v)
Without(a, v) == SelectSeq(a, LAMBDA e : e # v)

\* max and min of a non-empty array
MaxOf(a) == CHOOSE v \in {a[k] : k \in 1..Len(a)} : \A k \in 1..Len(a) : a[k] <= v
MinOf(a) == CHOOSE v \in {a[k] : k \in 1..Len(a)} : \A k \in 1..Len(a) : v <= a[k]

ZeroEdges_keep(conv) == conv

\* slope[0:offset] = 0 and slope[len(slope) - offset:] = 0
ZeroEdges(conv) ==
    [k \in 1..Len(conv) |->
        IF k <= Offset \/ k > Len(conv) - Offset THEN 0 ELSE conv[k]]

\* The candidate peaks and valleys of a derivative, coinciding pairs dropped;
\* err names the exception the consistency checks raise.
candidates(conv) ==
    LET slope == ZeroEdges(conv)
        sc == sign_changes(slope, "never")
        peaks == Sorted(sc.first)
        valleys == Sorted(sc.second)
    IN IF Len(peaks) # Len(valleys)
       THEN [err |-> "AssertionError", peaks |-> <<>>, valleys |-> <<>>]
       ELSE LET good_indices == SelectSeq([k \in 1..Len(peaks) |-> k],
                                          LAMBDA k : peaks[k] # valleys[k])
                p == [m \in 1..Len(good_indices) |-> peaks[good_indices[m]]]
                v == [m \in 1..Len(good_indices) |-> valleys[good_indices[m]]]
            IN IF \A m \in 1..Len(p) : v[m] > p[m]
               THEN [err |-> "none", peaks |-> p, valleys |-> v]
               ELSE [err |-> "RuntimeError", peaks |-> p, valleys |-> v]

valley_to_remove_deeper(signal, fail_left, fail_right, valley_left, valley_right) ==
    IF fail_left /\ fail_right
    THEN IF signal[valley_left] < signal[valley_right] THEN valley_left ELSE valley_right
    ELSE IF fail_left THEN valley_left ELSE valley_right

\* Which valley goes when a check failed.
valley_to_remove(signal, fail_left, fail_right, valley_left, valley_right) ==
    IF fail_left /\ fail_right
    THEN IF signal[valley_left] > signal[valley_right] THEN valley_left ELSE valley_right
    ELSE IF fail_left THEN valley_left ELSE valley_right

remove_peak_first(signal, peaks, valley) == Without(peaks, peaks[1])

remove_peak_keep(signal, peaks, valley) == peaks

remove_peak_higher(signal, peaks, valley) ==
    LET left_peak == MaxOf(Below(peaks, valley))
        right_peak == MinOf(Above(peaks, valley))
    IN IF valley > MaxOf(peaks)
       THEN Without(peaks, left_peak)
       ELSE IF signal[left_peak] > signal[right_peak]
            THEN Without(peaks, left_peak)
            ELSE Without(peaks, right_peak)

\* The peaks without the shallowest peak next to the valley marked for removal.
remove_peak(signal, peaks, valley) ==
    LET left_peak == MaxOf(Below(peaks, valley))
        right_peak == MinOf(Above(peaks, valley))
    IN IF valley > MaxOf(peaks)
       THEN Without(peaks, left_peak)
       ELSE IF signal[left_peak] < signal[right_peak]
            THEN Without(peaks, left_peak)
            ELSE Without(peaks, right_peak)

step_back_stay(now_at_peak) == now_at_peak

\* now_at_peak = max(0, now_at_peak - 1)
step_back(now_at_peak) == IF now_at_peak - 1 > 0 THEN now_at_peak - 1 ELSE 0

\* Values an input takes at the keys read now: those it already showed at the
\* keys read before, any value at the others.
Reads(known, keys, values) ==
    {f \in [keys -> values] : \A k \in keys \cap DOMAIN known : f[k] = known[k]}

PVSamples == {0, 1, 2}
SlopeSigns == {-1, 1}
SignalLengths == (KernelLen - 1)..(2 * Offset + MaxInner)
Convolutions(n) ==
    IF n < KernelLen
    THEN {<<>>}
    ELSE {[k \in 1..n |-> IF k <= Offset \/ k > n - Offset THEN edge ELSE inner[k - Offset]] :
             edge \in SlopeSigns, inner \in [1..(n - 2 * Offset) -> SlopeSigns]}

NoIteration ==
    [iter |-> "none", peak |-> 0, has_left |-> FALSE, fail_left |-> FALSE,
     fail_right |-> FALSE, valley_left |-> 0, valley_right |-> 0, valley_to_remove |-> 0,
     peaks |-> <<>>, valleys |-> <<>>, now |-> 0]

PVOthers == UNCHANGED <<pv_len, pv_conv, dvars, swvars, sgvars, gevars>>

\* Lines 171-197: the candidates and the consistency checks. The offset
\* (len(derivative_kernel) - 1) / 2 is an int under Python 2 and the float 4.0
\* under Python 3; as a slice bound and array size numpy takes the float
\* (older releases) or raises TypeError.
PVStart ==
    /\ pv_pc = "start"
    /\ IF pv_len < KernelLen
       THEN /\ pv_pc' = "done"
            /\ UNCHANGED <<pv_peaks, pv_valleys>>
       ELSE \/ /\ pv_pc' = "TypeError"
               /\ UNCHANGED <<pv_peaks, pv_valleys>>
            \/ LET c == candidates(pv_conv)
               IN /\ pv_peaks' = c.peaks
                  /\ pv_valleys' = c.valleys
                  /\ pv_pc' = IF c.err # "none" THEN c.err
                              ELSE IF Len(c.peaks) < 2 THEN "done" ELSE "loop"
    /\ UNCHANGED <<pv_signal, pv_test, pv_now, pv_last>>
    /\ PVOthers

\* Lines 206-208: the cursor is past the last peak.
PVReturn ==
    /\ pv_pc = "loop"
    /\ pv_now > Len(pv_peaks) - 1
    /\ pv_pc' = "done"
    /\ UNCHANGED <<pv_signal, pv_test, pv_peaks, pv_valleys, pv_now, pv_last>>
    /\ PVOthers

Raise(exception) ==
    /\ pv_pc' = exception
    /\ UNCHANGED <<pv_signal, pv_test, pv_peaks, pv_valleys, pv_now, pv_last>>

\* Lines 209-249: one iteration of the loop at the peak under the cursor.
PVIterate ==
    /\ pv_pc = "loop"
    /\ pv_now <= Len(pv_peaks) - 1
    /\ PVOthers
    /\ LET peak == pv_peaks[pv_now + 1]
       IN IF Len(pv_valleys) = 0 \/ Above(pv_valleys, peak) = <<>>
          THEN Raise("ValueError")
          ELSE
          LET has_left == ~(peak < MinOf(pv_valleys))
              valley_left == IF has_left THEN MaxOf(Below(pv_valleys, peak)) ELSE 0
              valley_right == MinOf(Above(pv_valleys, peak))
              asked == {<<peak, valley_right>>}
                          \cup (IF has_left THEN {<<peak, valley_left>>} ELSE {})
          IN \E answers \in Reads(pv_test, asked, BOOLEAN) :
             LET fail_left == has_left /\ ~answers[<<peak, valley_left>>]
                 fail_right == ~answers[<<peak, valley_right>>]
                 seen == [NoIteration EXCEPT !.peak = peak, !.has_left = has_left,
                             !.fail_left = fail_left, !.fail_right = fail_right,
                             !.valley_left = valley_left, !.valley_right = valley_right,
                             !.peaks = pv_peaks, !.valleys = pv_valleys, !.now = pv_now]
             IN /\ pv_test' = answers @@ pv_test
                /\ IF ~(fail_left \/ fail_right)
                   THEN /\ pv_now' = pv_now + 1
                        /\ pv_last' = [seen EXCEPT !.iter = "pass"]
                        /\ UNCHANGED <<pv_signal, pv_peaks, pv_valleys, pv_pc>>
                   ELSE
                   \E depth \in Reads(pv_signal,
                                      IF fail_left /\ fail_right
                                      THEN {valley_left, valley_right} ELSE {},
                                      PVSamples) :
                   LET valley == valley_to_remove(depth @@ pv_signal, fail_left, fail_right,
                                                  valley_left, valley_right)
                   IN \E height \in Reads(depth @@ pv_signal,
                                          IF valley > MaxOf(pv_peaks) THEN {}
                                          ELSE {MaxOf(Below(pv_peaks, valley)),
                                                MinOf(Above(pv_peaks, valley))},
                                          PVSamples) :
                      /\ pv_signal' = height @@ depth @@ pv_signal
                      /\ pv_peaks' = remove_peak(height @@ depth @@ pv_signal,
                                                 pv_peaks, valley)
                      /\ pv_now' = step_back(pv_now)
                      /\ pv_valleys' = Without(pv_valleys, valley)
                      /\ pv_last' = [seen EXCEPT !.iter = "remove",
                                                  !.valley_to_remove = valley]
                      /\ UNCHANGED pv_pc

(* --------------------------- get_events ------------------------------- *)
TimeUnits == {1, 2}

\* self.config: window, multiplicity, left_extension, right_extension (in ns)
Configurations ==
    {[window |-> w, multiplicity |-> m, left_extension |-> -e, right_extension |-> e] :
        w \in {1, 2}, m \in {0, 1}, e \in {0, 1}}

\* int(v) for v = a / unit: truncation towards zero
TruncDiv(a, unit) == IF a >= 0 THEN a \div unit ELSE -((-a) \div unit)

\* c.find({'time': {'$gt': search_after * unit}}, sort=[('time', 1)]) and the
\* conversion x = np.array(x) * (1 / unit), kept in units of 1 / unit ns.
find_after(store, search_after) == SelectSeq(store, LAMBDA t : t > search_after)

GEOthers == UNCHANGED <<dvars, sgvars, pvvars, ge_unit>>

\* The acquisition stores a pulse while the run is on.
StorePulse ==
    /\ ge_pc # "off"
    /\ ~ge_run_ended
    /\ Len(ge_store) < MaxPulses
    /\ \E t \in 0..MaxPulseTime :
          /\ ge_store' = Insert(ge_store, t)
          /\ ge_arrivals' = Append(ge_arrivals, t)
    /\ UNCHANGED <<ge_run_ended, ge_status, ge_ended, ge_last_time, ge_next, ge_events,
                   ge_pc, ge_seen, ge_waited, ge_queries>>
    /\ UNCHANGED swvars
    /\ GEOthers

\* The acquisition flags the run as ended.
EndRun ==
    /\ ge_pc # "off"
    /\ ~ge_run_ended
    /\ ge_run_ended' = TRUE
    /\ UNCHANGED <<ge_store, ge_status, ge_ended, ge_last_time, ge_next, ge_events,
                   ge_pc, ge_seen, ge_waited, ge_arrivals, ge_queries>>
    /\ UNCHANGED swvars
    /\ GEOthers

\* while not self.data_taking_ended
GEWhile ==
    /\ ge_pc = "while"
    /\ ge_pc' = IF ge_ended THEN "done" ELSE "update"
    /\ UNCHANGED <<ge_store, ge_run_ended, ge_status, ge_ended, ge_last_time, ge_next,
                   ge_events, ge_seen, ge_waited, ge_arrivals, ge_queries>>
    /\ UNCHANGED swvars
    /\ GEOthers

\* self.update_run_doc()
GEUpdateRunDoc ==
    /\ ge_pc = "update"
    /\ ge_ended' = ge_run_ended
    /\ ge_pc' = "query"
    /\ UNCHANGED <<ge_store, ge_run_ended, ge_status, ge_last_time, ge_next, ge_events,
                   ge_seen, ge_waited, ge_arrivals, ge_queries>>
    /\ UNCHANGED swvars
    /\ GEOthers

\* The query for the pulses after last_time; nothing found: log and sleep;
\* otherwise last_time = x[-1] and sliding_window is called on x.
GEQuery ==
    /\ ge_pc = "query"
    /\ LET x == find_after(ge_store, ge_last_time)
       IN IF Len(x) = 0
          THEN /\ ge_pc' = "sleep"
               /\ ge_waited' = ge_last_time
               /\ UNCHANGED <<ge_last_time, ge_seen, ge_queries>>
               /\ UNCHANGED swvars
          ELSE /\ ge_last_time' = x[Len(x)]
               /\ ge_seen' = ge_seen \cup {x[k] : k \in 1..Len(x)}
               /\ ge_queries' = Append(ge_queries, x)
               /\ ge_pc' = "cluster"
               /\ sw_x' = x
               /\ sw_i' = 0
               /\ sw_j' = 0
               /\ sw_ranges' = <<>>
               /\ sw_runs' = <<>>
               /\ sw_pc' = "start"
               /\ UNCHANGED <<sw_window, sw_mult, sw_left, sw_right, ge_waited>>
    /\ UNCHANGED <<ge_store, ge_run_ended, ge_status, ge_ended, ge_next, ge_events,
                   ge_arrivals>>
    /\ GEOthers

\* An empty poll that ends the iteration of the generator.
GESleepStops ==
    /\ ge_pc = "sleep"
    /\ ge_pc' = "done"
    /\ UNCHANGED <<ge_store, ge_run_ended, ge_status, ge_ended, ge_last_time, ge_next,
                   ge_events, ge_seen, ge_waited, ge_arrivals, ge_queries>>
    /\ UNCHANGED swvars
    /\ GEOthers

\* time.sleep(1); continue
GESleep ==
    /\ ge_pc = "sleep"
    /\ ge_pc' = "while"
    /\ UNCHANGED <<ge_store, ge_run_ended, ge_status, ge_ended, ge_last_time, ge_next,
                   ge_events, ge_seen, ge_waited, ge_arrivals, ge_queries>>
    /\ UNCHANGED swvars
    /\ GEOthers

\* sliding_window has returned self.ranges; the for loop starts.
GEClustered ==
    /\ ge_pc = "cluster"
    /\ sw_pc = "done"
    /\ ge_next' = 0
    /\ ge_pc' = "yield"
    /\ UNCHANGED <<ge_store, ge_run_ended, ge_status, ge_ended, ge_last_time, ge_events,
                   ge_seen, ge_waited, ge_arrivals, ge_queries>>
    /\ UNCHANGED swvars
    /\ GEOthers

\* One pass of the for loop: an Event from t0, t1 = int(start), int(stop) is
\* yielded; after the last range the loop is left.
GEYield ==
    /\ ge_pc = "yield"
    /\ IF ge_next < Len(sw_ranges)
       THEN LET this_range == sw_ranges[ge_next + 1]
            IN /\ ge_events' = Append(ge_events, <<TruncDiv(this_range[1], ge_unit),
                                                   TruncDiv(this_range[2], ge_unit)>>)
               /\ ge_next' = ge_next + 1
               /\ UNCHANGED ge_pc
       ELSE /\ ge_pc' = "cleanup"
            /\ UNCHANGED <<ge_events, ge_next>>
    /\ UNCHANGED <<ge_store, ge_run_ended, ge_status, ge_ended, ge_last_time, ge_seen,
                   ge_waited, ge_arrivals, ge_queries>>
    /\ UNCHANGED swvars
    /\ GEOthers

\* if self.data_taking_ended: the run document gets trigger.status 'processed'.
GECleanup ==
    /\ ge_pc = "cleanup"
    /\ ge_status' = IF ge_ended THEN "processed" ELSE ge_status
    /\ ge_pc' = "while"
    /\ UNCHANGED <<ge_store, ge_run_ended, ge_ended, ge_last_time, ge_next, ge_events,
                   ge_seen, ge_waited, ge_arrivals, ge_queries>>
    /\ UNCHANGED swvars
    /\ GEOthers

(* ------------------------- specifications ----------------------------- *)
DispatchInit ==
    /\ \/ batch \in 1..MaxBatch /\ limit = MaxEvents
       \/ batch = TestBatch /\ limit = TestEvents
    /\ n_workers \in 1..NWorkers
    /\ submitted = 0
    /\ current_block = <<>>
    /\ block_id = 0
    /\ pstate = "running"
    /\ pushed = <<>>
    /\ taken = 0
    /\ working = {}
    /\ lost = {}
    /\ queue = <<>>
    /\ buffer = {}
    /\ expected = 0
    /\ yielded = <<>>
    /\ pulled = <<>>
    /\ cdone = FALSE

\* The dispatch layer is not running.
DispatchOff ==
    /\ batch = 1
    /\ limit = 0
    /\ n_workers = 1
    /\ submitted = 0
    /\ current_block = <<>>
    /\ block_id = 0
    /\ pstate = "off"
    /\ pushed = <<>>
    /\ taken = 0
    /\ working = {}
    /\ lost = {}
    /\ queue = <<>>
    /\ buffer = {}
    /\ expected = 0
    /\ yielded = <<>>
    /\ pulled = <<>>
    /\ cdone = FALSE

Ascending(a) == \A k \in 1..(Len(a) - 1) : a[k] <= a[k + 1]

\* The ascending lists of at most MaxLen times in 0..MaxTime.
TimeLists ==
    {a \in UNION {[1..n -> 0..MaxTime] : n \in 0..MaxLen} : Ascending(a)}

\* sliding_window([0,1,2,50,51,52,53], window=5, multiplicity=2, left=-1, right=1)
ScenarioTimes == <<0, 1, 2, 50, 51, 52, 53>>
IsScenario ==
    /\ sw_x = ScenarioTimes
    /\ sw_window = 5
    /\ sw_mult = 2
    /\ sw_left = -1
    /\ sw_right = 1

SWInit ==
    /\ \/ /\ sw_x \in TimeLists
          /\ sw_window \in 0..MaxWindow
          /\ sw_mult \in 0..MaxMult
          /\ sw_left \in (-MaxExt)..MaxExt
          /\ sw_right \in 0..MaxExt
       \/ IsScenario
    /\ sw_i = 0
    /\ sw_j = 0
    /\ sw_ranges = <<>>
    /\ sw_pc = "start"
    /\ sw_runs = <<>>

\* No clustering call is in progress.
SWOff ==
    /\ sw_x = <<>>
    /\ sw_window = 0
    /\ sw_mult = 0
    /\ sw_left = 0
    /\ sw_right = 0
    /\ sw_i = 0
    /\ sw_j = 0
    /\ sw_ranges = <<>>
    /\ sw_pc = "off"
    /\ sw_runs = <<>>

SGInit ==
    /\ sg_signal \in Signals
    /\ sg_args = NoArgs
    /\ sg_res = NoRes
    /\ sg_pc = "start"

\* No dsputils call is made.
SGOff ==
    /\ sg_signal = <<>>
    /\ sg_args = NoArgs
    /\ sg_res = NoRes
    /\ sg_pc = "off"

\* peaks_and_valleys is called on a signal whose derivative is pv_conv.
PVInit ==
    /\ pv_len \in SignalLengths
    /\ pv_conv \in Convolutions(pv_len)
    /\ pv_signal = <<>>
    /\ pv_test = <<>>
    /\ pv_peaks = <<>>
    /\ pv_valleys = <<>>
    /\ pv_now = 0
    /\ pv_pc = "start"
    /\ pv_last = NoIteration

\* peaks_and_valleys is not called.
PVOff ==
    /\ pv_len = 0
    /\ pv_conv = <<>>
    /\ pv_signal = <<>>
    /\ pv_test = <<>>
    /\ pv_peaks = <<>>
    /\ pv_valleys = <<>>
    /\ pv_now = 0
    /\ pv_pc = "off"
    /\ pv_last = NoIteration

\* get_events is called on a run that has started: no pulse is stored yet, the
\* configuration is in ns and kept here in units of 1 / ge_unit ns.
GEInit ==
    /\ ge_store = <<>>
    /\ ge_run_ended = FALSE
    /\ ge_status = "processing"
    /\ ge_unit \in TimeUnits
    /\ ge_ended = FALSE
    /\ ge_last_time = 0
    /\ ge_next = 0
    /\ ge_events = <<>>
    /\ ge_pc = "while"
    /\ ge_seen = {}
    /\ ge_waited = -1
    /\ ge_arrivals = <<>>
    /\ ge_queries = <<>>
    /\ sw_x = <<>>
    /\ \E config \in Configurations :
          /\ sw_window = config.window * ge_unit
          /\ sw_mult = config.multiplicity
          /\ sw_left = config.left_extension * ge_unit
          /\ sw_right = config.right_extension * ge_unit
    /\ sw_i = 0
    /\ sw_j = 0
    /\ sw_ranges = <<>>
    /\ sw_pc = "off"
    /\ sw_runs = <<>>

\* get_events is not called.
GEOff ==
    /\ ge_store = <<>>
    /\ ge_run_ended = FALSE
    /\ ge_status = "processing"
    /\ ge_unit = 1
    /\ ge_ended = FALSE
    /\ ge_last_time = 0
    /\ ge_next = 0
    /\ ge_events = <<>>
    /\ ge_pc = "off"
    /\ ge_seen = {}
    /\ ge_waited = -1
    /\ ge_arrivals = <<>>
    /\ ge_queries = <<>>

XOff == SGOff /\ PVOff /\ GEOff

Init == DispatchInit /\ SWOff /\ XOff

Next ==
    \/ WriteEvent
    \/ Shutdown
    \/ WorkerClaim
    \/ WorkerPush
    \/ PullBlock

Spec == Init /\ [][Next]_vars

NextLossy ==
    \/ WriteEvent
    \/ Shutdown
    \/ WorkerClaim
    \/ WorkerPush
    \/ WorkerLose
    \/ PullBlock

SpecLossy == Init /\ [][NextLossy]_vars

\* Fair scheduling: the producer goes on until it has shut down, a free worker
\* claims a waiting block, a worker with a finished block pushes it when the
\* queue has room, and the consumer pulls when the queue holds a block
\* (weak fairness of PullBlock, whose enabling condition is CanPull).
SpecFair ==
    /\ Init
    /\ [][Next]_vars
    /\ WF_vars(WriteEvent \/ Shutdown)
    /\ WF_vars(WorkerClaim)
    /\ WF_vars(WorkerPush)
    /\ ([]<>(~CanPull) \/ []<><<PullBlock>>_vars)

InitWindow == DispatchOff /\ SWInit /\ XOff

NextWindow ==
    \/ SWStart
    \/ SWStep
    \/ SWFlush

SpecWindow == InitWindow /\ [][NextWindow]_vars

InitSignal == DispatchOff /\ SWOff /\ SGInit /\ PVOff /\ GEOff

NextSignal ==
    \/ SignChanges
    \/ IntervalsAboveThreshold
    \/ PeakBounds
    \/ WidthAtFraction
    \/ FindPeakInSignal

SpecSignal == InitSignal /\ [][NextSignal]_vars

InitPeaks == DispatchOff /\ SWOff /\ SGOff /\ PVInit /\ GEOff

NextPeaks ==
    \/ PVStart
    \/ PVIterate
    \/ PVReturn

SpecPeaks == InitPeaks /\ [][NextPeaks]_vars

\* The call runs on: a statement that can execute does execute.
SpecPeaksFair == InitPeaks /\ [][NextPeaks]_vars /\ WF_vars(NextPeaks)

InitEvents == DispatchOff /\ SGOff /\ PVOff /\ GEInit

\* The steps of the generator, with the clustering call it makes.
GetEvents ==
    \/ GEWhile
    \/ GEUpdateRunDoc
    \/ GEQuery
    \/ GESleep
    \/ SWStart
    \/ SWStep
    \/ SWFlush
    \/ GEClustered
    \/ GEYield
    \/ GECleanup

NextEvents ==
    \/ StorePulse
    \/ EndRun
    \/ GetEvents

\* The generator is iterated until it is exhausted and time.sleep returns; the
\* acquisition stores pulses and ends the run whenever it likes.
SpecEvents == InitEvents /\ [][NextEvents]_vars /\ WF_vars(GetEvents)

(* ======================= properties: dispatch ========================= *)
IsPrefix(s, t) == Len(s) <= Len(t) /\ \A k \in 1..Len(s) : s[k] = t[k]

\* Concatenated payloads of the data blocks among the first n blocks of log.
RECURSIVE ConcatData(_, _)
ConcatData(log, n) ==
    IF n = 0 THEN <<>>
    ELSE ConcatData(log, n - 1) \o (IF IsSentinel(log[n]) THEN <<>> ELSE log[n][2])

DataBlocks == {k \in 1..Len(pushed) : ~IsSentinel(pushed[k])}
SentinelPushed == \E k \in 1..Len(pushed) : IsSentinel(pushed[k])
SentinelId == (CHOOSE k \in 1..Len(pushed) : IsSentinel(pushed[k])) - 1

\* C1: whatever the arrival order of the blocks and the sentinel, the consumer
\* yields the events in submission order: what it has yielded is always the
\* events of the blocks below the next expected number, a prefix of the
\* submitted events, and when it ends it has yielded every submitted event once.
C1_OrderedDelivery ==
    /\ IsPrefix(yielded, EventsFromTo(0, submitted))
    /\ expected <= Len(pushed)
    /\ yielded = ConcatData(pushed, expected)
    /\ cdone => /\ pstate = "shut"
                /\ yielded = EventsFromTo(0, submitted)

\* The arrival order of test_ordered_pull: blocks 2, 0, 1, then the sentinel 3.
C1_Witness ==
    /\ cdone
    /\ pulled = <<2, 0, 1, 3>>
    /\ Len(yielded) >= 3

\* C2: the sequence numbers of the pushed blocks, in push order, are 0, 1, 2, ...
C2_ContiguousSequenceNumbers ==
    \A k \in 1..Len(pushed) : pushed[k][1] = k - 1

C2_Witness ==
    /\ pstate = "shut"
    /\ Len(pushed) >= 4
    /\ current_block = <<>>

\* C3: the iteration has ended exactly when the sentinel was consumed as the
\* next expected number; a sentinel received while a lower number is outstanding
\* is held, the iteration goes on, and at the end the events of all lower
\* blocks have been yielded.
C3_EndsOnlyOnSentinelInTurn ==
    /\ cdone <=> (SentinelPushed /\ expected = SentinelId + 1)
    /\ \A blk \in buffer : IsSentinel(blk) => (~cdone /\ expected < blk[1])
    /\ cdone => yielded = ConcatData(pushed, SentinelId)

\* The sentinel was pulled before a lower-numbered block, and the iteration ended.
C3_Witness ==
    /\ cdone
    /\ Len(yielded) >= 2
    /\ \E k \in 1..(Len(pulled) - 1) : pulled[k] = SentinelId

\* C4: after shutdown the buffered events have been flushed as one data block
\* and exactly one sentinel follows, numbered one past the last data block (0
\* when there is none); the sentinel is the last block pushed, and before
\* shutdown no sentinel is pushed.
C4_ShutdownProtocol ==
    /\ pstate = "running" => ~SentinelPushed
    /\ pstate = "shut" =>
          LET n == Len(pushed) IN
          /\ n >= 1
          /\ IsSentinel(pushed[n])
          /\ \A k \in 1..(n - 1) : ~IsSentinel(pushed[k])
          /\ pushed[n][1] = (IF n = 1 THEN 0 ELSE pushed[n - 1][1] + 1)
          /\ (submitted = 0) = (n = 1)
          /\ current_block = <<>>
          /\ ConcatData(pushed, n) = EventsFromTo(0, submitted)
          /\ submitted % batch # 0 => Len(pushed[n - 1][2]) = submitted % batch

C4_Witness ==
    /\ pstate = "shut"
    /\ submitted % batch # 0
    /\ Len(pushed) >= 3

\* C5: every data block but the last holds exactly batch events, the last holds
\* the rest, the payloads in sequence order are the submitted events in order
\* (22 events with batch size 10 give blocks of 10, 10 and 2).
C5_BlockSizes ==
    /\ Len(current_block) < batch
    /\ \A k \in DataBlocks :
          /\ Len(pushed[k][2]) >= 1
          /\ Len(pushed[k][2]) <= batch
          /\ (pstate = "running" \/ k + 1 \in DataBlocks) => Len(pushed[k][2]) = batch
    /\ ConcatData(pushed, Len(pushed)) \o current_block = EventsFromTo(0, submitted)
    /\ (batch = TestBatch /\ submitted = TestEvents /\ pstate = "shut") =>
          [k \in 1..(Len(pushed) - 1) |-> Len(pushed[k][2])] = <<10, 10, 2>>

C5_Witness ==
    /\ batch = TestBatch
    /\ submitted = TestEvents
    /\ pstate = "shut"

\* C6: when a sequence number never reaches the queue, the consumer yields no
\* event of a higher-numbered block and does not end; the higher-numbered blocks
\* it pulls, the sentinel included, stay in its buffer.
C6_LostBlockStalls ==
    \A l \in lost :
        /\ ~cdone
        /\ expected <= l
        /\ IsPrefix(yielded, ConcatData(pushed, l))
        /\ \A k \in 1..Len(pulled) :
              pulled[k] > l => \E blk \in buffer : blk[1] = pulled[k]

\* A lower block is lost, everything else has arrived, the sentinel is held and
\* the consumer waits on the empty queue.
C6_Witness ==
    /\ lost # {}
    /\ pstate = "shut"
    /\ taken = Len(pushed)
    /\ working = {}
    /\ queue = <<>>
    /\ ~cdone
    /\ \E blk \in buffer : IsSentinel(blk) /\ \E l \in lost : l < blk[1]
    /\ Cardinality(buffer) >= 2

\* C26: with a bounded queue, no block lost and fair scheduling of producer,
\* workers and consumer, the consumer eventually yields every submitted event
\* and ends, with nothing left in flight; a pusher blocked on the full queue
\* while the consumer waits for a number not yet on the queue is always
\* released.
C26_EventuallyDelivered ==
    /\ <>[](/\ cdone
            /\ pstate = "shut"
            /\ yielded = EventsFromTo(0, submitted))
    /\ [](cdone => (queue = <<>> /\ working = {} /\ buffer = {} /\ taken = Len(pushed)))
    /\ (Len(queue) = QueueCap /\ working # {}) ~> (Len(queue) < QueueCap \/ working = {})

\* The queue is full of blocks that are not the expected one, a worker holds the
\* expected block and cannot push it, and the consumer already holds a later block.
C26_Witness ==
    /\ Len(queue) = QueueCap
    /\ \A k \in 1..Len(queue) : queue[k][1] > expected
    /\ \E blk \in working : blk[1] = expected
    /\ buffer # {}
    /\ ~cdone

(* ==================== properties: sliding window ====================== *)
\* C7: the ranges sliding_window returns are ascending and do not overlap:
\* each has start <= stop, and each stops below the start of the next one.
C7_SortedNonOverlapping ==
    sw_pc = "done" =>
        /\ \A k \in 1..Len(sw_ranges) : sw_ranges[k][1] <= sw_ranges[k][2]
        /\ \A k \in 1..(Len(sw_ranges) - 1) : sw_ranges[k][2] < sw_ranges[k + 1][1]

\* Some run of the input fits in the window and is longer than multiplicity.
QualifyingRunExists ==
    \E a \in 0..(Len(sw_x) - 1) : \E b \in (a + 1)..Len(sw_x) :
        /\ b - a > sw_mult
        /\ At(sw_x, b - 1) - At(sw_x, a) <= sw_window

\* C8: every range is created or extended from a run x[i..j-1] that fits in the
\* window and has more than multiplicity members, every range was created from
\* such a run, and without such a run in the input the result is empty.
C8_QualifyingRuns ==
    /\ \A k \in 1..Len(sw_runs) :
          LET r == sw_runs[k] IN
          /\ 0 <= r.i
          /\ r.i < r.j
          /\ r.j <= Len(sw_x)
          /\ r.j - r.i > sw_mult
          /\ At(sw_x, r.j - 1) - At(sw_x, r.i) <= sw_window
    /\ Cardinality({k \in 1..Len(sw_runs) : sw_runs[k].emit = "new"}) = Len(sw_ranges)
    /\ (sw_pc = "done" /\ ~QualifyingRunExists) => sw_ranges = <<>>

C8_Witness ==
    /\ sw_pc = "done"
    /\ Len(sw_runs) >= 3
    /\ \E k \in 1..Len(sw_runs) : sw_runs[k].emit = "extend"
    /\ \E k \in 1..Len(sw_runs) : sw_runs[k].j - sw_runs[k].i = sw_mult + 1

\* The groups of the input: a new group starts after every gap wider than the
\* window plus the two extensions.
GapAfter(k) == sw_x[k + 1] - sw_x[k] > sw_window + sw_right - sw_left
GroupStarts == {k \in 1..Len(sw_x) : k = 1 \/ GapAfter(k - 1)}
GroupEnd(a) ==
    CHOOSE b \in a..Len(sw_x) :
        /\ b = Len(sw_x) \/ GapAfter(b)
        /\ \A c \in a..(b - 1) : ~GapAfter(c)
NthStart(n) ==
    CHOOSE a \in GroupStarts : Cardinality({b \in GroupStarts : b < a}) = n - 1
WellSeparated ==
    \A a \in GroupStarts :
        /\ sw_x[GroupEnd(a)] - sw_x[a] <= sw_window
        /\ GroupEnd(a) - a + 1 > sw_mult
GroupRanges ==
    [n \in 1..Cardinality(GroupStarts) |->
        <<sw_x[NthStart(n)] + sw_left, sw_x[GroupEnd(NthStart(n))] + sw_right>>]

\* C9: for an input made of groups that each fit in the window, each have more
\* than multiplicity members and lie further apart than the window plus the two
\* extensions, the result is one range per group, from the group's first time
\* plus left to its last time plus right; the scenario gives [-1, 3], [49, 54].
C9_OneRangePerGroup ==
    /\ (sw_pc = "done" /\ WellSeparated) => sw_ranges = GroupRanges
    /\ (sw_pc = "done" /\ IsScenario) => sw_ranges = << <<-1, 3>>, <<49, 54>> >>

C9_Witness ==
    /\ sw_pc = "done"
    /\ IsScenario
    /\ WellSeparated
    /\ Len(sw_ranges) = 2

\* C10: a call with left > 0 fails with ValueError before any range is
\* produced; a call with left <= 0 (0 included) never fails.
C10_LeftValidation ==
    /\ (sw_left > 0 /\ sw_pc # "start") =>
          (sw_pc = "ValueError" /\ sw_ranges = <<>> /\ sw_runs = <<>> /\ sw_j = 0)
    /\ sw_left <= 0 => sw_pc # "ValueError"
    /\ (sw_left = 0 /\ Len(sw_x) = 0) => sw_pc \in {"start", "loop", "done"}

C10_Witness ==
    /\ sw_pc = "ValueError"
    /\ sw_left > 0
    /\ Len(sw_x) >= 2

\* The loop is at a run that qualifies; the previous range reaches it.
QualifyingRun ==
    /\ sw_pc = "loop"
    /\ sw_j < Len(sw_x)
    /\ At(sw_x, sw_j) - At(sw_x, sw_i) > sw_window
    /\ sw_j - sw_i > sw_mult
PreviousReaches ==
    /\ Len(sw_ranges) > 0
    /\ sw_ranges[Len(sw_ranges)][2] + sw_window > At(sw_x, sw_i)

\* C22: when the loop of sliding_window is at a qualifying run starting at
\* times[i] and the previous range's right edge plus window is greater than
\* times[i], the previous range is extended: the number of ranges stays, the
\* earlier ranges and the previous range's start stay, and its right edge
\* becomes times[j-1] + right, never smaller than before; otherwise the range
\* [times[i] + left, times[j-1] + right] is appended.
C22_ExtendOrAppend ==
    [][QualifyingRun =>
          IF PreviousReaches
          THEN /\ Len(sw_ranges') = Len(sw_ranges)
               /\ \A k \in 1..(Len(sw_ranges) - 1) : sw_ranges'[k] = sw_ranges[k]
               /\ sw_ranges'[Len(sw_ranges)][1] = sw_ranges[Len(sw_ranges)][1]
               /\ sw_ranges'[Len(sw_ranges)][2] = At(sw_x, sw_j - 1) + sw_right
               /\ sw_ranges'[Len(sw_ranges)][2] >= sw_ranges[Len(sw_ranges)][2]
          ELSE sw_ranges' = Append(sw_ranges, <<At(sw_x, sw_i) + sw_left,
                                                At(sw_x, sw_j - 1) + sw_right>>)]_vars

\* A range was appended by the loop and then extended to a later right edge.
C22_Witness ==
    /\ sw_pc = "loop"
    /\ Len(sw_runs) = 2
    /\ sw_runs[1].emit = "new"
    /\ sw_runs[2].emit = "extend"
    /\ At(sw_x, sw_runs[2].j - 1) > At(sw_x, sw_runs[1].j - 1)
    /\ sw_ranges = <<<<At(sw_x, sw_runs[1].i) + sw_left,
                       At(sw_x, sw_runs[2].j - 1) + sw_right>>>>

(* ================= properties: peak bounds and signals ================ *)
SigLen == Len(sg_signal)
InSeq(v, a) == \E k \in 1..Len(a) : a[k] = v

\* C12: for a non-empty signal and a valid peak index, peak_bounds returns
\* (l, r) with 0 <= l <= peak_index <= r <= len(signal) - 1, and
\* width_at_fraction is at least 1 and at most len(signal).
C12_BoundsContainPeak ==
    /\ (sg_pc = "peak_bounds" /\ SigLen > 0) =>
          /\ sg_res.err = "none"
          /\ 0 <= sg_res.left
          /\ sg_res.left <= sg_args.max_idx
          /\ sg_args.max_idx <= sg_res.right
          /\ sg_res.right <= SigLen - 1
    /\ (sg_pc = "width_at_fraction" /\ SigLen > 0) =>
          /\ sg_res.err = "none"
          /\ 1 <= sg_res.width
          /\ sg_res.width <= SigLen

C12_Witness ==
    /\ sg_pc = "peak_bounds"
    /\ 0 < sg_res.left
    /\ sg_res.left < sg_args.max_idx
    /\ sg_args.max_idx < sg_res.right
    /\ sg_res.right = SigLen - 1
    /\ ~threshold_test(Ix(sg_signal, sg_res.right),
                       Threshold(Ix(sg_signal, sg_args.max_idx), sg_args.fraction,
                                 sg_args.zero_level))

\* C13: when height >= threshold, each bound of peak_bounds is the last index at
\* or above the threshold on its side: the samples from l to r are all >=
\* threshold and the sample just outside each bound, if there is one, is below.
C13_BoundsAtThreshold ==
    (sg_pc = "peak_bounds" /\ SigLen > 0) =>
        LET thr == Threshold(Ix(sg_signal, sg_args.max_idx), sg_args.fraction,
                             sg_args.zero_level)
        IN ~threshold_test(Ix(sg_signal, sg_args.max_idx), thr) =>
              /\ \A k \in sg_res.left..sg_res.right : ~threshold_test(Ix(sg_signal, k), thr)
              /\ sg_res.left > 0 => threshold_test(Ix(sg_signal, sg_res.left - 1), thr)
              /\ sg_res.right < SigLen - 1 =>
                    threshold_test(Ix(sg_signal, sg_res.right + 1), thr)

\* C14: every Peak of find_peak_in_signal has left <= index_of_maximum <= right.
C14_MaximumInsideBounds ==
    (sg_pc = "find_peak_in_signal" /\ SigLen > 0) =>
        /\ sg_res.err = "none"
        /\ sg_res.peak.left <= sg_res.peak.index_of_maximum
        /\ sg_res.peak.index_of_maximum <= sg_res.peak.right

\* C15: find_peak_in_signal reports the maximum of unfiltered over [left, right]
\* as height, offset plus an index of unfiltered where that maximum occurs as
\* index_of_maximum, the sum of unfiltered[left..right] as area, and the
\* peak_bounds result shifted by offset as left and right.
C15_PeakProperties ==
    (sg_pc = "find_peak_in_signal" /\ SigLen > 0) =>
        LET b == peak_bounds(sg_signal, argmax(sg_signal), sg_args.fraction, 0)
            u == sg_args.unfiltered
            pk == sg_res.peak
        IN /\ pk.left = sg_args.offset + b.left
           /\ pk.right = sg_args.offset + b.right
           /\ pk.area = Sum(Slice(u, b.left, b.right + 1))
           /\ \A k \in b.left..b.right : Ix(u, k) <= pk.height
           /\ \E k \in b.left..b.right :
                 /\ Ix(u, k) = pk.height
                 /\ pk.index_of_maximum = sg_args.offset + k

\* C16: for a non-empty signal, every interval of intervals_above_threshold has
\* start <= end, holds only samples above the threshold and is bordered by
\* samples that are not above it; the intervals are the maximal runs of samples
\* above the threshold, a run that reaches the last sample included.
C16_MaximalRunsAboveThreshold ==
    (sg_pc = "intervals_above_threshold" /\ SigLen > 0) =>
        /\ sg_res.err = "none"
        /\ \A n \in 1..Len(sg_res.intervals) :
              LET start == sg_res.intervals[n][1]
                  end == sg_res.intervals[n][2]
              IN /\ 0 <= start
                 /\ start <= end
                 /\ end <= SigLen - 1
                 /\ \A k \in start..end : Ix(sg_signal, k) > sg_args.threshold
                 /\ start > 0 => Ix(sg_signal, start - 1) <= sg_args.threshold
                 /\ end < SigLen - 1 => Ix(sg_signal, end + 1) <= sg_args.threshold
        /\ \A k \in 0..(SigLen - 1) :
              Ix(sg_signal, k) > sg_args.threshold =>
                 \E n \in 1..Len(sg_res.intervals) :
                    sg_res.intervals[n][1] <= k /\ k <= sg_res.intervals[n][2]

\* C17: with the policy 'never', index 0 is in neither output of sign_changes.
C17_NeverReportsFirstIndex ==
    (sg_pc = "sign_changes" /\ sg_args.policy = "never" /\ sg_res.err = "none") =>
        /\ ~InSeq(0, sg_res.first)
        /\ ~InSeq(0, sg_res.second)

\* C18: intervals_above_threshold raises nothing; for an empty signal and for a
\* signal without a sample above the threshold it returns the empty sequence.
C18_NoErrorPath ==
    sg_pc = "intervals_above_threshold" =>
        /\ sg_res.err = "none"
        /\ (SigLen = 0 \/ \A k \in 0..(SigLen - 1) : Ix(sg_signal, k) <= sg_args.threshold)
              => sg_res.intervals = <<>>

(* =================== properties: peaks and valleys ==================== *)
Interleaved(peaks, valleys) ==
    /\ Len(peaks) = Len(valleys)
    /\ \A k \in 1..Len(peaks) :
          /\ peaks[k] < valleys[k]
          /\ k < Len(peaks) => valleys[k] < peaks[k + 1]

\* C11: at every iteration of the refinement loop of peaks_and_valleys and when
\* it returns, peaks and valleys have the same length and interleave strictly
\* (peaks[k] < valleys[k] < peaks[k+1]); the peak under the cursor always has a
\* valley to its right, so the search for valley_right never fails.
C11_StrictInterleaving ==
    /\ pv_pc \in {"loop", "done"} => Interleaved(pv_peaks, pv_valleys)
    /\ (pv_pc = "loop" /\ pv_now <= Len(pv_peaks) - 1) =>
          Above(pv_valleys, pv_peaks[pv_now + 1]) # <<>>
    /\ pv_pc # "ValueError"

C11_Witness ==
    /\ pv_pc = "loop"
    /\ pv_last.iter = "remove"
    /\ Len(pv_last.peaks) = 3
    /\ Len(pv_peaks) = 2
    /\ pv_now = 1

\* The valley the last iteration deleted, and the other valley it looked at.
DeletedValley ==
    CHOOSE v \in {pv_last.valleys[k] : k \in 1..Len(pv_last.valleys)} :
        \A k \in 1..Len(pv_valleys) : pv_valleys[k] # v
OtherValley ==
    IF DeletedValley = pv_last.valley_left THEN pv_last.valley_right
    ELSE pv_last.valley_left
OneValleyDeleted ==
    /\ Len(pv_valleys) = Len(pv_last.valleys) - 1
    /\ DeletedValley \in {pv_last.valley_left, pv_last.valley_right}
    /\ pv_valleys = Without(pv_last.valleys, DeletedValley)
OneSideFailure ==
    /\ (pv_last.fail_left /\ ~pv_last.fail_right) => DeletedValley = pv_last.valley_left
    /\ (pv_last.fail_right /\ ~pv_last.fail_left) => DeletedValley = pv_last.valley_right

\* C20 (as amended): in an iteration where the acceptance test fails on both
\* sides of the cursor peak, the valley deleted is the one of valley_left and
\* valley_right with the LARGER signal value at its index (valley_right when
\* the two values are equal); when the test fails on one side only, the valley
\* deleted is the valley of that side.
C20_ShallowerValleyDeleted ==
    pv_last.iter = "remove" =>
        /\ OneValleyDeleted
        /\ OneSideFailure
        /\ (pv_last.fail_left /\ pv_last.fail_right) =>
              /\ pv_signal[DeletedValley] >= pv_signal[OtherValley]
              /\ pv_signal[pv_last.valley_left] = pv_signal[pv_last.valley_right]
                    => DeletedValley = pv_last.valley_right

C20_Witness ==
    /\ pv_last.iter = "remove"
    /\ pv_last.fail_left
    /\ pv_last.fail_right
    /\ DeletedValley = pv_last.valley_left
    /\ pv_signal[pv_last.valley_left] > pv_signal[pv_last.valley_right]

\* C20 as stated: on a failure on both sides the valley deleted is the one with
\* the smaller signal value at its index.
C20_SmallerValueDeleted ==
    pv_last.iter = "remove" =>
        /\ OneValleyDeleted
        /\ OneSideFailure
        /\ (pv_last.fail_left /\ pv_last.fail_right) =>
              pv_signal[DeletedValley] <= pv_signal[OtherValley]

\* The peaks the last iteration deleted, and the peaks next to the deleted valley.
DeletedPeaks ==
    {pv_last.peaks[k] : k \in 1..Len(pv_last.peaks)} \ {pv_peaks[k] : k \in 1..Len(pv_peaks)}
LeftNeighbour == MaxOf(Below(pv_last.peaks, DeletedValley))
RightNeighbour == MinOf(Above(pv_last.peaks, DeletedValley))

\* C21: with the valley chosen for deletion exactly one peak next to it is
\* deleted: the peak to its left when the valley lies after the last peak,
\* otherwise one of its nearest left and right peaks, never the one whose signal
\* value is strictly higher than the other's; no other peak or valley changes.
C21_LowerNeighbourPeakDeleted ==
    pv_last.iter = "remove" =>
        /\ Cardinality(DeletedPeaks) = 1
        /\ Len(pv_peaks) = Len(pv_last.peaks) - 1
        /\ \A p \in DeletedPeaks :
              /\ pv_peaks = Without(pv_last.peaks, p)
              /\ IF DeletedValley > MaxOf(pv_last.peaks)
                 THEN p = LeftNeighbour
                 ELSE /\ p \in {LeftNeighbour, RightNeighbour}
                      /\ pv_signal[LeftNeighbour] > pv_signal[RightNeighbour]
                            => p = RightNeighbour
                      /\ pv_signal[RightNeighbour] > pv_signal[LeftNeighbour]
                            => p = LeftNeighbour
        /\ pv_valleys = Without(pv_last.valleys, DeletedValley)

C21_Witness ==
    /\ pv_last.iter = "remove"
    /\ Len(pv_last.peaks) = 3
    /\ DeletedValley < MaxOf(pv_last.peaks)
    /\ pv_signal[LeftNeighbour] < pv_signal[RightNeighbour]
    /\ DeletedPeaks = {LeftNeighbour}
    /\ LeftNeighbour = pv_last.peak


\* test_function has accepted the pair.
Passed(peak, valley) ==
    /\ <<peak, valley>> \in DOMAIN pv_test
    /\ pv_test[<<peak, valley>>]

\* C23: when peaks_and_valleys returns after the refinement loop, every
\* surviving peak has passed the (deterministic) acceptance predicate against
\* its nearest surviving valley to the right and, when there is one, against its
\* nearest surviving valley to the left.
C23_SurvivorsChecked ==
    (pv_pc = "done" /\ pv_last.iter # "none") =>
        \A k \in 1..Len(pv_peaks) :
            /\ Above(pv_valleys, pv_peaks[k]) # <<>>
            /\ Passed(pv_peaks[k], MinOf(Above(pv_valleys, pv_peaks[k])))
            /\ Below(pv_valleys, pv_peaks[k]) # <<>>
                  => Passed(pv_peaks[k], MaxOf(Below(pv_valleys, pv_peaks[k])))

\* Two peaks survive a run in which a pair left of the cursor was removed.
C23_Witness ==
    /\ pv_pc = "done"
    /\ Len(pv_peaks) = 2
    /\ \E q \in DOMAIN pv_test :
          /\ ~pv_test[q]
          /\ q[2] < q[1]
          /\ q[2] > pv_peaks[1]
          /\ q[1] <= pv_peaks[2]

\* What one pass through the loop does to the cursor and the lists.
CursorAdvances ==
    /\ pv_now' = pv_now + 1
    /\ UNCHANGED <<pv_peaks, pv_valleys>>
PairRemoved ==
    /\ Len(pv_peaks') = Len(pv_peaks) - 1
    /\ Len(pv_valleys') = Len(pv_valleys) - 1
    /\ pv_now' <= pv_now
LoopLeft ==
    /\ pv_pc' = "done"
    /\ pv_now > Len(pv_peaks) - 1
    /\ UNCHANGED <<pv_peaks, pv_valleys>>
LoopStep ==
    pv_pc = "loop" =>
        IF pv_pc' = "loop" THEN CursorAdvances \/ PairRemoved ELSE LoopLeft

\* C24: peaks_and_valleys terminates for every signal and every acceptance
\* predicate: each iteration of the loop advances the cursor or removes one
\* peak/valley pair, the loop is left only by the cursor passing the end of the
\* peaks list and then the function returns; with all pairs removed it returns
\* two empty lists.
C24_Terminates ==
    /\ [][LoopStep]_vars
    /\ <>(pv_pc \notin {"start", "loop"})
    /\ (pv_pc = "loop") ~> (pv_pc = "done")
    /\ [](pv_pc = "loop" /\ pv_peaks = <<>> => pv_valleys = <<>>)

\* Every pair was rejected, all pairs are gone and the call has returned.
C24_Witness ==
    /\ pv_pc = "done"
    /\ pv_last.iter = "remove"
    /\ Len(pv_last.peaks) = 1
    /\ pv_peaks = <<>>
    /\ pv_valleys = <<>>
    /\ Cardinality(DOMAIN pv_test) >= 3
    /\ \A q \in DOMAIN pv_test : ~pv_test[q]

\* The call has passed the consistency checks and not yet run a loop iteration.
CandidatesReady ==
    /\ pv_pc \in {"loop", "done"}
    /\ pv_len >= KernelLen
    /\ pv_last.iter = "none"

\* C25: the candidates sign_changes (policy 'never') yields from the derivative
\* with zeroed edges have equally many peaks and valleys, no valley before its
\* paired peak, and after the coinciding pairs are dropped every valley is
\* strictly after its paired peak: neither the assertion nor the error
\* 'Peak & valley list weird!' is raised, whatever the signal.
C25_CandidatesConsistent ==
    /\ pv_pc \notin {"AssertionError", "RuntimeError"}
    /\ CandidatesReady =>
          LET sc == sign_changes(ZeroEdges(pv_conv), "never")
          IN /\ Len(sc.first) = Len(sc.second)
             /\ \A k \in 1..Len(sc.first) : sc.first[k] <= sc.second[k]
             /\ Len(pv_peaks) = Len(pv_valleys)
             /\ \A k \in 1..Len(pv_peaks) : pv_valleys[k] > pv_peaks[k]

\* Three candidates, one of them a coinciding pair that was dropped.
C25_Witness ==
    /\ CandidatesReady
    /\ pv_pc = "loop"
    /\ Len(pv_peaks) = 2
    /\ Len(sign_changes(ZeroEdges(pv_conv), "never").first) = 3
    /\ pv_conv[1] = 1

(* ======================= properties: get_events ======================= *)
Stored(t) == \E k \in 1..Len(ge_store) : ge_store[k] = t

\* The events of the ranges sliding_window returned for the last poll.
EventsOfRanges ==
    [k \in 1..Len(sw_ranges) |-> <<TruncDiv(sw_ranges[k][1], ge_unit),
                                   TruncDiv(sw_ranges[k][2], ge_unit)>>]

\* A poll that finds nothing yields no event, fails nothing and leaves
\* last_time and the run document alone.
EmptyPollChangesNothing ==
    (ge_pc = "query" /\ ge_pc' = "sleep") =>
        /\ UNCHANGED <<ge_events, ge_last_time, ge_status, ge_ended, ge_store, ge_seen>>
        /\ UNCHANGED swvars

\* C19: when a poll finds no new pulse while data taking has not ended,
\* get_events yields no event and raises nothing; it waits and polls again, and
\* every pulse newer than last_time that is stored (before or after the empty
\* poll) is later returned by a query and clustered, and the ranges of that
\* clustering are yielded as events.
C19_EmptyPollRetries ==
    /\ [][EmptyPollChangesNothing]_vars
    /\ [](ge_pc = "sleep" => sw_pc # "ValueError")
    /\ [](ge_pc = "cleanup" =>
            /\ Len(ge_events) >= Len(sw_ranges)
            /\ SubSeq(ge_events, Len(ge_events) - Len(sw_ranges) + 1, Len(ge_events))
                  = EventsOfRanges)
    /\ (ge_pc = "sleep" /\ ~ge_ended) ~> (ge_pc = "query")
    /\ \A t \in 0..MaxPulseTime :
          (ge_waited >= 0 /\ Stored(t) /\ t > ge_last_time)
             ~> (t \in ge_seen /\ ge_pc = "cleanup")

\* A pulse that arrived after an empty poll has been clustered and yielded.
C19_Witness ==
    /\ ge_waited >= 0
    /\ ge_last_time > ge_waited
    /\ ge_pc = "cleanup"
    /\ ~ge_ended
    /\ Len(sw_ranges) > 0
    /\ Len(ge_events) = Len(sw_ranges)

\* get_events has stopped: the loop was left, or the clustering call raised.
Stopped == ge_pc = "done" \/ sw_pc = "ValueError"

\* The half of C27 that the code keeps: the end, once read, stops the loop.
EndStops == ge_ended ~> Stopped

\* C27: once the run document read by get_events reports data_taking_ended,
\* get_events eventually stops, and whenever it has stopped by leaving its
\* loop the run document has trigger.status 'processed' (set together with
\* trigger.ended), also when the poll made after the end was seen is empty.
C27_StopsProcessed ==
    /\ EndStops
    /\ [](ge_pc = "done" => ge_status = "processed")

\* The pulses were stored in increasing time order.
StoredInOrder ==
    \A k \in 1..(Len(ge_arrivals) - 1) : ge_arrivals[k] < ge_arrivals[k + 1]

\* The number of queries whose result contains the pulse of time t.
Returns(t) ==
    Cardinality({q \in 1..Len(ge_queries) :
                    \E k \in 1..Len(ge_queries[q]) : ge_queries[q][k] = t})

\* The run document read by get_events reports the end, and the query that
\* follows that read has been made.
EndQueried == ge_ended /\ ge_pc # "query"

\* The pulses of the given times are returned by at most one query each, and
\* by exactly one once the query after the end was read has been made.
NoneMissed(times) ==
    StoredInOrder =>
        \A k \in 1..Len(ge_store) :
            ge_store[k] \in times =>
                /\ Returns(ge_store[k]) <= 1
                /\ EndQueried => Returns(ge_store[k]) = 1

\* C28: with pulses stored in increasing time order, every pulse stored before
\* the run was flagged as ended is in the result of a query made after the
\* run document was read, at the latest the query that follows the read of
\* the end, and no pulse is in the result of two queries.
C28_NoPulseMissed == NoneMissed(0..MaxPulseTime)

\* What the code keeps of C28: the same for the pulses of a time above 0.
LaterPulsesNotMissed == NoneMissed(1..MaxPulseTime)

\* The run ended between the processing of a pulse and the end check, and the
\* pulse stored in between was returned by the query after the end was read.
RaceCovered ==
    /\ StoredInOrder
    /\ EndQueried
    /\ Len(ge_queries) = 2
    /\ Len(ge_store) = 2
    /\ ge_store[1] > 0

====
